---- MODULE Spec2Model ----
(***************************************************************************)
(* Bulk-delete-with-undo coordinator of the users list page                *)
(* (UsersList: startBulkDelete, finalizeBulkDeletion, undoBulkDeletion,    *)
(* the rehydration effect and the guard effect), together with its         *)
(* environment: the query cache, sessionStorage, the toast surface, the    *)
(* timers of the event loop and the remote record store.                   *)
(*                                                                         *)
(* One action is one task of the single-threaded event loop: a handler     *)
(* runs from its entry (or from the await it resumes at) up to the next    *)
(* await that needs a timer or a network response.  Awaits that resolve    *)
(* without I/O (an already settled promise) continue in the same action.   *)
(***************************************************************************)
EXTENDS Integers, Sequences, FiniteSets, TLC

\* ------------------------------------------------------------------ bounds
NumUsers == 2
MaxSel == 2
MaxTxn == 2
MaxNow == 7500
MaxReloads == 1
MaxEmptyCalls == 1
MaxMutations == 2
MaxInsts == 2
MaxReruns == 1

\* ------------------------------------------------------- program constants
UndoWindowMs == 5000
TickMs == 250
ThrottleMs == 100
ToastDurationMs == 5000
PartialToastDurationMs == 7000
RestoredToastId == 0
\* the id `temp-${Date.now()}` of the optimistic record of useCreateUser
TempId == 0

\* ------------------------------------------------------------ clock steps
Steps == {2500}

\* ----------------------------------------------------------------- values
Ids == 1..NumUsers
\* the mounted UsersList (the route renders one at a time)
Insts == 1..MaxInsts
\* ghost transaction identities (the race specification creates one more)
MaxRaceTxn == MaxTxn + 1
Tids == 1..MaxRaceTxn
ToastIds == 0..MaxRaceTxn

\* user.name of the record with the given id (names are distinct from ids)
Name(id) == id + 100

Range(s) == {s[k] : k \in DOMAIN s}

Injective(s) == \A a, b \in DOMAIN s : s[a] = s[b] => a = b

\* the possible values of selectedUsers: rows of the table, in some order
Selections(rows) ==
  {s \in UNION {[1..n -> rows] : n \in 0..MaxSel} : Injective(s)}

\* User[] | undefined
Undef == [def |-> FALSE, data |-> <<>>]
Def(s) == [def |-> TRUE, data |-> s]

\* user.id of a record: a record is written as a number whose last digit
\* is its id and whose tens count the edits of its other fields
RecId(v) == v % 10

RECURSIVE SortedSeq(_)
SortedSeq(S) ==
  IF S = {} THEN <<>>
  ELSE LET m == CHOOSE x \in S : \A y \in S : RecId(x) <= RecId(y)
       IN <<m>> \o SortedSeq(S \ {m})

Max(a, b) == IF a >= b THEN a ELSE b

\* mutant: the countdown is rounded down
SecondsLeftFloor(ms) == IF ms <= 0 THEN 0 ELSE ms \div 1000

\* Math.max(0, Math.ceil(ms / 1000))
SecondsLeft(ms) == IF ms <= 0 THEN 0 ELSE (ms + 999) \div 1000

\* mutant: the filter keeps the selected records instead of the others
FilterOutInverted(old, idsToDelete) ==
  SelectSeq(old, LAMBDA u : u \in idsToDelete)

\* old.filter((user) => !idsToDelete.has(user.id))
FilterOut(old, idsToDelete) == SelectSeq(old, LAMBDA u : u \notin idsToDelete)

\* new Set(users.map((user) => user.id))
IdSet(users) == Range(users)

\* queryClient.setQueryData(key, value): a value of undefined is ignored
SetQueryData(old, value) == IF value.def THEN value ELSE old

\* the `(old = []) => ...` default of the updater functions
OrEmpty(c) == IF c.def THEN c.data ELSE <<>>

\* messageBase of startBulkDelete / the fallback message of rehydration
MessageBase(users) ==
  IF Len(users) = 1
  THEN [kind |-> "one", arg |-> Name(users[1])]
  ELSE [kind |-> "many", arg |-> Len(users)]

NoMessage == [kind |-> "", arg |-> 0]


\* ---------------------------------------------------------------- records
\* PendingBulkDeletion | null   (tid = 0 is null; tid is a ghost identity)
NoPending ==
  [tid |-> 0, users |-> <<>>, previousUsers |-> Undef, toastId |-> 0,
   timeoutId |-> 0, intervalId |-> 0, expiresAt |-> 0, message |-> NoMessage]

\* the sessionStorage item (present = FALSE: no item under the key);
\* previousUsers is User[] | null (null stands for a missing key too);
\* form says what JSON.parse and the checks of line 80 meet:
\*   "ok"        an object with an array `users` and a number `expiresAt`
\*   "syntax"    text that is not JSON
\*   "users"     `users` is missing or not an array
\*   "expiresAt" `expiresAt` is missing or not a number
\*   "snapshot"  as "ok", but `previousUsers` is neither an array nor null
\* `by` is a ghost: the writer's tid (0: not written by this page)
NoBlob ==
  [present |-> FALSE, users |-> <<>>,
   previousUsers |-> [null |-> TRUE, data |-> <<>>],
   expiresAt |-> 0, message |-> NoMessage, form |-> "ok", by |-> 0]

\* a toast of the notification surface
NoToast ==
  [live |-> FALSE, inst |-> 0, msg |-> NoMessage, secs |-> 0,
   action |-> FALSE, until |-> 0]

NoCall == [active |-> FALSE, sel |-> <<>>]

\* an outcome toast; NoDuration: the call passes no duration
NoDuration == -1

NoOutcome ==
  [kind |-> "none", deleted |-> 0, failed |-> 0, names |-> <<>>,
   duration |-> NoDuration]

\* one invocation of finalizeBulkDeletion that found a pending deletion
NoRun ==
  [pc |-> "none", inst |-> 0, users |-> <<>>, previousUsers |-> Undef,
   idx |-> 0, success |-> <<>>, failed |-> <<>>, due |-> 0,
   waiter |-> NoCall, outcome |-> NoOutcome, cacheAtOutcome |-> Undef]

\* ghost history of a transaction
\*   status            where the transaction is in its lifecycle
\*   undone, begun     undoBulkDeletion took effect on it; how many times
\*                     finalizeBulkDeletion started to commit it
\*   sel               the records it was created for
\*   before, after     the working set read before its optimistic write (for
\*                     a rehydrated one: by the transaction it continues)
\*                     and the working set right after that write
\*   waitedFor         the run its startBulkDelete call awaited (0: none)
\*   returnedAtStart,  delete requests of that run answered, and not yet
\*   owedAtStart       answered, when the snapshot was read
\*   concurrentAtStart transactions still pending or in their delete loop
\*                     at that moment
\*   calls             ids of the delete requests issued for it, in order
\*   restored          the working set right after its undo
\*   continues         for a rehydrated one: the transaction that wrote
\*                     the item it was built from (0: none of this page)
\*   lateUndo          undoBulkDeletion was invoked, and found nothing
\*                     pending, after it entered its commit or was settled
NoHist ==
  [status |-> "none", kept |-> FALSE, undone |-> FALSE, begun |-> 0,
   sel |-> <<>>, before |-> Undef, after |-> Undef,
   rehydrated |-> FALSE, waitedFor |-> 0, returnedAtStart |-> 0,
   owedAtStart |-> 0,
   concurrentAtStart |-> {}, calls |-> <<>>, restored |-> Undef,
   lateUndo |-> FALSE, continues |-> 0]

\* a single-record mutation (useMutation): pc is where it is, kind and id
\* what it is for, previousUsers the context onMutate returned; outcome
\* and count are ghosts: how the last one settled, how many were started
NoMutation ==
  [pc |-> "idle", kind |-> "none", id |-> 0, previousUsers |-> Undef,
   outcome |-> "none", count |-> 0]

\* the route "/" is shown by the first instance of UsersList; effects is a
\* ghost: how often its rehydration effect has run again since it mounted
ListShown == [inst |-> 1, shown |-> TRUE, effects |-> 0]

\* ghost: finalizeBulkDeletion has returned
Committed(h) == [h EXCEPT !.status = "committed"]

\* ghost: the details of a settled transaction are dropped when a later
\* transaction is created
Forget(h) ==
  IF h.status \in {"none", "pending", "committing"} THEN h
  ELSE [NoHist EXCEPT !.status = h.status, !.undone = h.undone,
                      !.begun = h.begun]

VARIABLES
  now,         \* Date.now()
  server,      \* ids of the records of the remote record store
  cache,       \* query data of usersKeys.list(): the working set
  storage,     \* the sessionStorage item of the pending bulk deletion
  pendingRef,  \* pendingBulkDeletion.current of each component instance
  timers,      \* scheduled setTimeout / setInterval callbacks
  toasts,      \* countdown toasts by toast id
  runs,        \* finalizeBulkDeletion invocations by transaction
  hist,        \* ghost: what happened to each transaction
  nextTid,     \* ghost: next transaction identity
  reloads,     \* number of page reloads so far
  emptyCalls,  \* ghost: startBulkDelete calls with an empty selection
  slotFails,   \* sessionStorage is unavailable: its operations throw
  crashed,     \* an effect threw and React unmounted the application
  mutation,    \* the single-record mutation in flight, and its context
  page         \* the UsersList instance last mounted, and is it on screen

vars ==
  <<now, server, cache, storage, pendingRef, timers, toasts, runs, hist,
    nextTid, reloads, emptyCalls, slotFails, crashed, mutation, page>>

\* getAllUsers(): the list the remote store answers with
ServerList == SortedSeq(server)

\* `data: users = []` of useUsers(): the rows the page renders
Users == OrEmpty(cache)

Init ==
  /\ now = 0
  /\ server = Ids
  /\ cache = Undef
  /\ storage = NoBlob
  /\ pendingRef = [i \in Insts |-> NoPending]
  /\ timers = {}
  /\ toasts = [k \in ToastIds |-> NoToast]
  /\ runs = [t \in Tids |-> NoRun]
  /\ hist = [t \in Tids |-> NoHist]
  /\ nextTid = 1
  /\ reloads = 0
  /\ emptyCalls = <<>>
  /\ slotFails = FALSE
  /\ crashed = FALSE
  /\ mutation = NoMutation
  /\ page = ListShown

\* ------------------------------------------------------------ persistence
\* persistPendingBulkDeletion(value): the item after the call; a throwing
\* removeItem or setItem is caught at line 61 and leaves the item as it is
PersistPendingBulkDeletion(value) ==
  IF slotFails THEN storage
  ELSE IF value.tid = 0 THEN NoBlob
  ELSE [present |-> TRUE,
        users |-> value.users,
        previousUsers |->
          IF value.previousUsers.def
          THEN [null |-> FALSE, data |-> value.previousUsers.data]
          ELSE [null |-> TRUE, data |-> <<>>],
        expiresAt |-> value.expiresAt,
        message |-> value.message,
        form |-> "ok",
        by |-> value.tid]

\* ------------------------------------------------------- background fetch
\* a refetch of the users list completes and writes the server's answer
Refetch ==
  /\ ~crashed
  /\ page.shown
  /\ cache # Def(ServerList)
  /\ cache' = Def(ServerList)
  /\ UNCHANGED <<now, server, storage, pendingRef, timers, toasts, runs,
                 hist, nextTid, reloads, emptyCalls, slotFails, crashed,
                 mutation, page>>

\* mutant: the guard drops every row
GuardedNothingLeft(old, users, pending) ==
  IF pending.tid = 0 \/ Len(pending.users) = 0 THEN old
  ELSE IF ~\E k \in DOMAIN users : users[k] \in IdSet(pending.users)
  THEN old
  ELSE Def(<<>>)

\* lines 388-403: the query data after the guard effect has run with the
\* rendered rows `users` and the reference `pending`
Guarded(old, users, pending) ==
  LET idsToDelete == IdSet(pending.users)
      hasPendingUsers == \E k \in DOMAIN users : users[k] \in idsToDelete
  IN IF pending.tid = 0 \/ Len(pending.users) = 0 THEN old
     ELSE IF ~hasPendingUsers THEN old
     ELSE Def(FilterOut(OrEmpty(old), idsToDelete))

\* the guard effect of UsersList (runs after a render with changed users)
GuardEffect(i) ==
  /\ page.shown /\ i = page.inst
  /\ cache' = Guarded(cache, Users, pendingRef[i])
  /\ cache' # cache
  /\ UNCHANGED <<now, server, storage, pendingRef, timers, toasts, runs,
                 hist, nextTid, reloads, emptyCalls, slotFails, crashed,
                 mutation, page>>

\* wall-clock time passes
Advance(d) ==
  /\ now + d <= MaxNow
  /\ now' = now + d
  /\ UNCHANGED <<server, cache, storage, pendingRef, timers, toasts, runs,
                 hist, nextTid, reloads, emptyCalls, slotFails, crashed,
                 mutation, page>>


\* ------------------------------------------------------------------ timers
Timeout(id, i, due) == [kind |-> "timeout", id |-> id, inst |-> i, due |-> due]
Interval(id, i, due) ==
  [kind |-> "interval", id |-> id, inst |-> i, due |-> due]

\* clearTimeout(id)
ClearTimeout(ts, id) == {t \in ts : ~(t.kind = "timeout" /\ t.id = id)}

\* clearInterval(id)
ClearInterval(ts, id) == {t \in ts : ~(t.kind = "interval" /\ t.id = id)}

\* mutant: only the expiry timer is cancelled
ClearPendingTimersExpiryOnly(ts, pending) ==
  ClearTimeout(ts, pending.timeoutId)

\* lines 123-126 / 178-181: clearTimeout(pending.timeoutId) and, when
\* pending.intervalId is set, clearInterval(pending.intervalId)
ClearPendingTimers(ts, pending) ==
  IF pending.intervalId # 0
  THEN ClearInterval(ClearTimeout(ts, pending.timeoutId), pending.intervalId)
  ELSE ClearTimeout(ts, pending.timeoutId)

\* toast.dismiss(id)
Dismiss(tt, id) == [tt EXCEPT ![id] = NoToast]

\* toast.warning('Users removed', {description, action, duration, id})
CountdownToast(tt, id, i, msg, secs, action, duration) ==
  [tt EXCEPT ![id] =
     [live |-> TRUE, inst |-> i, msg |-> msg, secs |-> secs,
      action |-> action, until |-> now + duration]]

\* ------------------------------------------------- transactions in flight
\* runs whose delete loop has started and not finished
Committing == {t \in Tids : runs[t].pc \in {"inflight", "throttle"}}

\* transactions held by a component instance
Held == {pendingRef[i].tid : i \in Insts} \ {0}

\* startBulkDelete calls suspended at `await finalizeBulkDeletion()`
WaitingCalls ==
  {t \in Tids : runs[t].waiter.active /\ runs[t].pc \notin {"none", "done", "killed"}}

Returned(r) == Len(r.success) + Len(r.failed)

\* ------------------------------------------------------- startBulkDelete
\* mutant: the snapshot is read after the optimistic write
SnapshotAfterWrite(cacheIn, newCache) == newCache

\* line 207: previousUsers = getQueryData(usersKeys.list()), read before the
\* setQueryData of lines 212-214
Snapshot(cacheIn, newCache) == cacheIn

\* lines 202-285 of startBulkDelete: everything after
\* `await finalizeBulkDeletion()`; cacheIn is the query data at that moment,
\* waitedFor the run the call was suspended on (0: finalize found nothing)
StartTxn(i, usersToDelete, cacheIn, waitedFor) ==
  LET tid == nextTid
      idsToDelete == IdSet(usersToDelete)
      newCache == Def(FilterOut(OrEmpty(cacheIn), idsToDelete))
      previousUsers == Snapshot(cacheIn, newCache)
      messageBase == MessageBase(usersToDelete)
      expiresAt == now + UndoWindowMs
      initialSeconds == SecondsLeft(expiresAt - now)
      created ==
        [tid |-> tid, users |-> usersToDelete,
         previousUsers |-> previousUsers, toastId |-> tid,
         timeoutId |-> tid, intervalId |-> tid, expiresAt |-> expiresAt,
         message |-> messageBase]
  IN /\ cache' = newCache
     /\ toasts' = CountdownToast(toasts, tid, i, messageBase, initialSeconds,
                                 TRUE, ToastDurationMs)
     /\ timers' = timers \cup {Timeout(tid, i, now + UndoWindowMs),
                               Interval(tid, i, now + TickMs)}
     /\ pendingRef' = [pendingRef EXCEPT ![i] = created]
     /\ storage' = PersistPendingBulkDeletion(created)
     /\ nextTid' = tid + 1
     /\ hist' = [[t \in Tids |->
                    Forget(IF t = waitedFor THEN Committed(hist[t])
                           ELSE hist[t])] EXCEPT ![tid] =
          [NoHist EXCEPT
             !.status = "pending", !.kept = TRUE, !.sel = usersToDelete,
             !.before = previousUsers, !.after = newCache,
             !.waitedFor = waitedFor,
             !.returnedAtStart =
               IF waitedFor = 0 THEN 0 ELSE Returned(runs[waitedFor]),
             !.owedAtStart =
               IF waitedFor = 0 THEN 0
               ELSE Len(runs[waitedFor].users) - Returned(runs[waitedFor]),
             !.concurrentAtStart =
               Committing \cup Held]]


\* ------------------------------------------------- finalizeBulkDeletion
\* mutant: the warning lists every record of the transaction
OutcomeToastAllNames(r) ==
  IF Len(r.failed) = 0
  THEN [kind |-> "success", deleted |-> Len(r.success), failed |-> 0,
        names |-> <<>>, duration |-> NoDuration]
  ELSE IF Len(r.success) = 0
  THEN [kind |-> "error", deleted |-> 0, failed |-> Len(r.users),
        names |-> <<>>, duration |-> NoDuration]
  ELSE [kind |-> "warning", deleted |-> Len(r.success),
        failed |-> Len(r.failed),
        names |-> [k \in DOMAIN r.users |-> Name(r.users[k])],
        duration |-> PartialToastDurationMs]

\* lines 146-163: the outcome toast for the result lists
OutcomeToast(r) ==
  IF Len(r.failed) = 0
  THEN [kind |-> "success", deleted |-> Len(r.success), failed |-> 0,
        names |-> <<>>, duration |-> NoDuration]
  ELSE IF Len(r.success) = 0
  THEN [kind |-> "error", deleted |-> 0, failed |-> Len(r.users),
        names |-> <<>>, duration |-> NoDuration]
  ELSE [kind |-> "warning", deleted |-> Len(r.success),
        failed |-> Len(r.failed), names |-> r.failed,
        duration |-> PartialToastDurationMs]

\* mutant: the all-failed branch does not roll back
CacheAfterOutcomeKept(r, cacheIn) == cacheIn

\* lines 150-151: only the all-failed branch writes the query data
CacheAfterOutcome(r, cacheIn) ==
  IF Len(r.failed) # 0 /\ Len(r.success) = 0
  THEN SetQueryData(cacheIn, r.previousUsers)
  ELSE cacheIn

\* mutant: the all-failed branch returns without invalidating
SettleErrorReturns(r, cacheIn) ==
  [r EXCEPT !.pc = IF Len(r.failed) # 0 /\ Len(r.success) = 0
                   THEN "done" ELSE "invalidating",
            !.outcome = OutcomeToast(r),
            !.cacheAtOutcome = CacheAfterOutcome(r, cacheIn)]

\* the loop is over: lines 146-165 up to `await invalidateQueries(...)`
Settle(r, cacheIn) ==
  [r EXCEPT !.pc = "invalidating",
            !.outcome = OutcomeToast(r),
            !.cacheAtOutcome = CacheAfterOutcome(r, cacheIn)]

\* mutant: a failed delete ends the loop
NextRequestAbort(r, cacheIn) ==
  IF r.idx < Len(r.users) /\ Len(r.failed) = 0
  THEN [r EXCEPT !.pc = "inflight", !.idx = r.idx + 1]
  ELSE Settle(r, cacheIn)

\* line 137 for the next record of the loop, or the end of the loop
NextRequest(r, cacheIn) ==
  IF r.idx < Len(r.users)
  THEN [r EXCEPT !.pc = "inflight", !.idx = r.idx + 1]
  ELSE Settle(r, cacheIn)

\* ghost: the delete request a run issues when it enters "inflight"
Issued(h, r) ==
  IF r.pc = "inflight" THEN [h EXCEPT !.calls = Append(h.calls, r.users[r.idx])]
  ELSE h

\* mutant: the loop goes through the records in id order
RunOfSorted(pending, i, waiter) ==
  NextRequest([NoRun EXCEPT !.inst = i,
                            !.users = SortedSeq(Range(pending.users)),
                            !.previousUsers = pending.previousUsers,
                            !.waiter = waiter], cache)

\* lines 121-137: finalizeBulkDeletion found `pending`; runs up to the first
\* `await deleteUserRequest(...)` (or to the invalidation, for no records)
RunOf(pending, i, waiter) ==
  NextRequest([NoRun EXCEPT !.inst = i, !.users = pending.users,
                            !.previousUsers = pending.previousUsers,
                            !.waiter = waiter], cache)

\* mutant: finalizeBulkDeletion leaves the reference set
FinalizedRefKept(ref, i) == ref

\* line 121: pendingBulkDeletion.current = null
FinalizedRef(ref, i) == [ref EXCEPT ![i] = NoPending]

FinalizeBegin(i, waiter, timersIn) ==
  LET pending == pendingRef[i]
      run == RunOf(pending, i, waiter)
  IN /\ pending.tid # 0
     /\ pendingRef' = FinalizedRef(pendingRef, i)
     /\ storage' = PersistPendingBulkDeletion(NoPending)
     /\ timers' = ClearPendingTimers(timersIn, pending)
     /\ toasts' = Dismiss(toasts, pending.toastId)
     /\ runs' = [runs EXCEPT ![pending.tid] = run]
     /\ hist' = [hist EXCEPT ![pending.tid] =
          Issued([@ EXCEPT !.begun = @ + 1, !.status = "committing"], run)]

\* lines 116-119: finalizeBulkDeletion found nothing pending
FinalizeNothing ==
  storage' = PersistPendingBulkDeletion(NoPending)

\* the expiry timer of lines 235-237 / 319-321 / 335-337 fires
ExpiryFires(tm) ==
  /\ tm \in timers /\ tm.kind = "timeout"
  /\ now >= tm.due
  /\ IF pendingRef[tm.inst].tid # 0
     THEN /\ FinalizeBegin(tm.inst, NoCall, timers \ {tm})
          /\ UNCHANGED <<now, server, cache, nextTid, reloads, emptyCalls, slotFails, crashed,
                 mutation, page>>
     ELSE /\ FinalizeNothing
          /\ timers' = timers \ {tm}
          /\ UNCHANGED <<now, server, cache, pendingRef, toasts, runs, hist,
                         nextTid, reloads, emptyCalls, slotFails, crashed,
                 mutation, page>>

\* the remote store answers the delete request in flight (lines 137-143)
DeleteResponse(t, ok) ==
  LET r == runs[t]
      id == r.users[r.idx]
  IN /\ r.pc = "inflight"
     /\ ok => id \in server
     /\ IF ok
        THEN /\ server' = server \ {id}
             /\ runs' = [runs EXCEPT ![t] =
                  [r EXCEPT !.success = Append(r.success, Name(id)),
                            !.pc = "throttle", !.due = now + ThrottleMs]]
             /\ UNCHANGED <<cache, hist>>
        ELSE LET failed == [r EXCEPT !.failed = Append(r.failed, Name(id))]
                 next == NextRequest(failed, cache)
             IN /\ runs' = [runs EXCEPT ![t] = next]
                /\ cache' = IF next.pc = "invalidating"
                            THEN next.cacheAtOutcome ELSE cache
                /\ hist' = [hist EXCEPT ![t] = Issued(@, next)]
                /\ UNCHANGED server
     /\ UNCHANGED <<now, storage, pendingRef, timers, toasts, nextTid,
                    reloads, emptyCalls, slotFails, crashed,
                 mutation, page>>

\* the 100 ms pause of line 139 is over
ThrottleDone(t) ==
  LET r == runs[t]
      next == NextRequest(r, cache)
  IN /\ r.pc = "throttle"
     /\ now >= r.due
     /\ runs' = [runs EXCEPT ![t] = next]
     /\ cache' = IF next.pc = "invalidating"
                 THEN next.cacheAtOutcome ELSE cache
     /\ hist' = [hist EXCEPT ![t] = Issued(@, next)]
     /\ UNCHANGED <<now, server, storage, pendingRef, timers, toasts,
                    nextTid, reloads, emptyCalls, slotFails, crashed,
                 mutation, page>>

\* mutant: the promise settles while delete requests are still to come
FinalizeSettlesEarly(r) == r.pc \in {"inflight", "throttle", "invalidating"}

\* lines 135-165: the promise of finalizeBulkDeletion settles only after the
\* loop is over and the invalidation of line 165 has been awaited
FinalizeSettles(r) == r.pc = "invalidating"

\* the refetch awaited at line 165 settles (fetched: with the server's
\* answer; otherwise it failed); finalizeBulkDeletion returns and a
\* startBulkDelete call suspended on it continues at line 202
InvalidateDone(t, fetched) ==
  LET r == runs[t]
      data == IF fetched THEN Def(ServerList) ELSE cache
  IN /\ FinalizeSettles(r)
     /\ fetched => page.shown
     /\ runs' = [runs EXCEPT ![t] = [NoRun EXCEPT !.pc = "done"]]
     /\ IF r.waiter.active
        THEN /\ StartTxn(r.inst, r.waiter.sel, data, t)
             /\ UNCHANGED <<now, server, reloads, emptyCalls, slotFails, crashed,
                 mutation, page>>
        ELSE /\ cache' = data
             /\ hist' = [hist EXCEPT ![t] = Committed(@)]
             /\ UNCHANGED <<now, server, storage, pendingRef, timers, toasts,
                            nextTid, reloads, emptyCalls, slotFails, crashed,
                 mutation, page>>

\* mutant: an empty selection is not turned away
EmptySelectionNever(usersToDelete) == FALSE

\* line 196: usersToDelete.length === 0
EmptySelection(usersToDelete) == Len(usersToDelete) = 0

\* startBulkDelete(usersToDelete), lines 194-200, called by
\* handleConfirmBulkDelete with the current selection; the ghost emptyCalls
\* records, for each call with an empty selection, the transaction that was
\* pending at the call (0: none)
StartBulkDelete(i, usersToDelete) ==
  /\ ~crashed
  /\ page.shown /\ i = page.inst
  /\ emptyCalls' = IF Len(usersToDelete) = 0
                   THEN Append(emptyCalls, pendingRef[i].tid)
                   ELSE emptyCalls
  /\ IF EmptySelection(usersToDelete)
     THEN UNCHANGED <<now, server, cache, storage, pendingRef, timers,
                      toasts, runs, hist, nextTid, reloads, slotFails,
                      crashed,
                 mutation, page>>
     ELSE IF pendingRef[i].tid # 0
     THEN /\ FinalizeBegin(i, [active |-> TRUE, sel |-> usersToDelete],
                           timers)
          /\ UNCHANGED <<now, server, cache, nextTid, reloads, slotFails,
                         crashed,
                 mutation, page>>
     ELSE /\ StartTxn(i, usersToDelete, cache, 0)
          /\ UNCHANGED <<now, server, runs, reloads, slotFails, crashed,
                 mutation, page>>


\* ----------------------------------------------------- undoBulkDeletion
\* mutant: undo leaves the reference set
UndoneRefKept(ref, i) == ref

\* line 176: pendingBulkDeletion.current = null
UndoneRef(ref, i) == [ref EXCEPT ![i] = NoPending]

\* mutant: undo does not write the snapshot back
UndoRestoredNothing(cacheIn, pending) == cacheIn

\* line 185: queryClient.setQueryData(usersKeys.list(), pending.previousUsers)
UndoRestored(cacheIn, pending) == SetQueryData(cacheIn, pending.previousUsers)

\* undoBulkDeletion() of instance i, lines 168-192
UndoBulkDeletion(i, toastsIn) ==
  LET pending == pendingRef[i]
      restored == UndoRestored(cache, pending)
  IN IF pending.tid = 0
     THEN /\ FinalizeNothing
          /\ toasts' = toastsIn
          /\ hist' = [t \in Tids |->
               IF hist[t].status \in {"committing", "committed", "undone"}
               THEN [hist[t] EXCEPT !.lateUndo = TRUE] ELSE hist[t]]
          /\ UNCHANGED <<cache, pendingRef, timers>>
     ELSE /\ pendingRef' = UndoneRef(pendingRef, i)
          /\ storage' = PersistPendingBulkDeletion(NoPending)
          /\ timers' = ClearPendingTimers(timers, pending)
          /\ toasts' = Dismiss(toastsIn, pending.toastId)
          /\ cache' = restored
          /\ hist' = [hist EXCEPT ![pending.tid] =
               [@ EXCEPT !.status = "undone", !.undone = TRUE,
                         !.restored = restored]]

\* the user clicks the Undo action of a countdown toast; the toast surface
\* runs the action's onClick and closes the clicked toast
ClickUndo(id) ==
  /\ toasts[id].live
  /\ toasts[id].action
  /\ UndoBulkDeletion(toasts[id].inst, Dismiss(toasts, id))
  /\ UNCHANGED <<now, server, runs, nextTid, reloads, emptyCalls, slotFails, crashed,
                 mutation, page>>

\* the toast surface closes a toast whose duration is over
ToastExpire(id) ==
  /\ toasts[id].live
  /\ now >= toasts[id].until
  /\ toasts' = Dismiss(toasts, id)
  /\ UNCHANGED <<now, server, cache, storage, pendingRef, timers, runs, hist,
                 nextTid, reloads, emptyCalls, slotFails, crashed,
                 mutation, page>>

\* ------------------------------------------------------------------ tick
\* mutant: every tick offers Undo
UndoOfferedAlways(secondsLeft) == TRUE

\* lines 253-259: the action of the toast a tick shows
UndoOffered(secondsLeft) == secondsLeft > 0

\* the setInterval callback of lines 239-268 / 339-368
Tick(tm) ==
  LET pending == pendingRef[tm.inst]
      secondsLeft == SecondsLeft(pending.expiresAt - now)
  IN /\ tm \in timers /\ tm.kind = "interval"
     /\ now >= tm.due
     /\ IF pending.tid = 0
        THEN /\ timers' = ClearInterval(timers, tm.id)
             /\ UNCHANGED toasts
        ELSE /\ toasts' = CountdownToast(toasts, pending.toastId, tm.inst,
                                         pending.message, secondsLeft,
                                         UndoOffered(secondsLeft),
                                         ToastDurationMs)
             /\ timers' =
                  IF secondsLeft <= 0 THEN ClearInterval(timers, tm.id)
                  ELSE (timers \ {tm}) \cup
                         {Interval(tm.id, tm.inst, now + TickMs)}
     /\ UNCHANGED <<now, server, cache, storage, pendingRef, runs, hist,
                    nextTid, reloads, emptyCalls, slotFails, crashed,
                 mutation, page>>


\* ----------------------------------------------------------- rehydration
\* lines 77-90: the item does not parse or fails the checks of line 80
Rejected(item) == item.present /\ item.form \in {"syntax", "users", "expiresAt"}

\* readPendingBulkDeletion(), lines 73-90: the value returned for the item
\* that getItem returned (NoBlob: null)
ReadPendingBulkDeletion(item) ==
  IF item.present /\ ~Rejected(item) THEN item ELSE NoBlob

\* lines 81 and 88: a rejected item is removed from the slot
SlotAfterRead(item) == IF Rejected(item) THEN NoBlob ELSE item

\* line 71 is outside the try block: a throwing getItem leaves
\* readPendingBulkDeletion as an exception
ReadThrows == slotFails

\* lines 309-310: `source.filter` is called on a stored previousUsers that
\* is not an array when the query holds no data
FilterThrows(old, stored) ==
  stored.present /\ stored.form = "snapshot" /\ ~old.def

\* the rehydration effect of instance i ends with an exception
RehydrationThrows(i, cacheIn, refIn) ==
  /\ refIn[i].tid = 0
  /\ \/ ReadThrows
     \/ FilterThrows(cacheIn, ReadPendingBulkDeletion(storage))

\* mutant: the filter starts from the query data only
SourceWithoutSnapshot(old, stored) == OrEmpty(old)

\* line 309: old ?? stored.previousUsers ?? []
Source(old, stored) ==
  IF old.def THEN old.data
  ELSE IF ~stored.previousUsers.null THEN stored.previousUsers.data
  ELSE <<>>

\* mutant: a stored deletion never counts as expired
ExpiredNever(remainingMs) == FALSE

\* line 318: remainingMs <= 0
Expired(remainingMs) == remainingMs <= 0

\* mutant: the effect does not look at the reference
AlreadyHeldNever(ref) == FALSE

\* line 291: if (pendingBulkDeletion.current) return
AlreadyHeld(ref) == ref.tid # 0

\* the rehydration effect of lines 290-385, run by instance i on mount;
\* the ...In parameters are the state the effect starts from
Rehydrate(i, cacheIn, timersIn, toastsIn, refIn, histIn) ==
  LET stored == ReadPendingBulkDeletion(storage)
      tid == nextTid
      idsToDelete == IdSet(stored.users)
      message == IF stored.message.kind # "" THEN stored.message
                 ELSE MessageBase(stored.users)
      source == Source(cacheIn, stored)
      newCache == Def(FilterOut(source, idsToDelete))
      remainingMs == stored.expiresAt - now
      expired == Expired(remainingMs)
      created ==
        [tid |-> tid, users |-> stored.users,
         previousUsers |-> IF stored.previousUsers.null THEN Undef
                           ELSE Def(stored.previousUsers.data),
         toastId |-> RestoredToastId, timeoutId |-> tid,
         intervalId |-> IF expired THEN 0 ELSE tid,
         expiresAt |-> stored.expiresAt, message |-> message]
  IN IF \/ AlreadyHeld(refIn[i])
        \/ RehydrationThrows(i, cacheIn, refIn)
        \/ ~stored.present
     THEN /\ cache' = cacheIn
          /\ timers' = timersIn
          /\ toasts' = toastsIn
          /\ pendingRef' = refIn
          /\ hist' = histIn
          /\ storage' = IF AlreadyHeld(refIn[i]) \/ ReadThrows THEN storage
                        ELSE SlotAfterRead(storage)
          /\ UNCHANGED nextTid
     ELSE /\ cache' = newCache
          /\ timers' =
               IF expired THEN timersIn \cup {Timeout(tid, i, now)}
               ELSE timersIn \cup {Timeout(tid, i, now + remainingMs),
                                   Interval(tid, i, now + TickMs)}
          /\ toasts' =
               IF expired THEN toastsIn
               ELSE CountdownToast(toastsIn, RestoredToastId, i, message,
                                   SecondsLeft(remainingMs), TRUE,
                                   remainingMs)
          /\ pendingRef' = [refIn EXCEPT ![i] = created]
          /\ storage' = PersistPendingBulkDeletion(created)
          /\ nextTid' = tid + 1
          /\ hist' = [[t \in Tids |-> Forget(histIn[t])] EXCEPT ![tid] =
               [NoHist EXCEPT
                  !.status = "pending", !.kept = TRUE,
                  !.sel = stored.users,
                  !.before = IF stored.by \in Tids
                             THEN histIn[stored.by].before
                             ELSE created.previousUsers,
                  !.after = newCache, !.rehydrated = TRUE,
                  !.continues = stored.by]]

\* ghost: what a page reload does to the history of live transactions
Unloaded(h) ==
  [h EXCEPT !.status = IF @ = "pending" THEN "unloaded"
                       ELSE IF @ = "committing" THEN "interrupted" ELSE @]

\* the page is reloaded: every script state of the tab is lost, the
\* sessionStorage item and the remote store survive; a delete request in
\* flight may or may not still be carried out; the page mounts again, and
\* an exception in the rehydration effect unmounts the application (no
\* error boundary is rendered above UsersList)
Reload(processed) ==
  /\ reloads < MaxReloads
  /\ page.shown
  /\ processed \subseteq
       {runs[t].users[runs[t].idx] : t \in {u \in Tids : runs[u].pc = "inflight"}}
  /\ reloads' = reloads + 1
  /\ server' = server \ processed
  /\ runs' = [t \in Tids |->
       IF runs[t].pc \in {"none", "done"} THEN runs[t]
       ELSE [NoRun EXCEPT !.pc = "killed"]]
  /\ Rehydrate(1, Undef, {}, [k \in ToastIds |-> NoToast],
               [i \in Insts |-> NoPending],
               [t \in Tids |-> Unloaded(hist[t])])
  /\ crashed' = RehydrationThrows(1, Undef, [i \in Insts |-> NoPending])
  /\ mutation' = NoMutation
  /\ page' = ListShown
  /\ UNCHANGED <<now, emptyCalls, slotFails>>

\* ------------------------------------------------------- route changes
\* the user navigates from "/" to the create or edit route: UsersList is
\* unmounted; its effects return no cleanup, so its timers stay scheduled
\* with their closures over its reference, and the toasts stay on the
\* Toaster, which App renders above the routes
LeaveList ==
  /\ ~crashed
  /\ page.shown
  /\ page.inst < MaxInsts
  /\ page' = [page EXCEPT !.shown = FALSE]
  /\ UNCHANGED <<now, server, cache, storage, pendingRef, timers, toasts,
                 runs, hist, nextTid, reloads, emptyCalls, slotFails,
                 crashed, mutation>>

\* the user navigates back to "/": a new instance of UsersList mounts with
\* an empty reference (useRef(null), line 106) and runs the rehydration
\* effect over the query cache, the timers and the toasts that are there
ReturnToList ==
  LET i == page.inst + 1
  IN /\ ~crashed
     /\ ~page.shown
     /\ Rehydrate(i, cache, timers, toasts, pendingRef, hist)
     /\ page' = [inst |-> i, shown |-> TRUE, effects |-> 0]
     /\ crashed' = RehydrationThrows(i, cache, pendingRef)
     /\ UNCHANGED <<now, server, runs, reloads, emptyCalls, slotFails,
                    mutation>>

\* the rehydration effect of the mounted instance runs once more (React
\* StrictMode runs every effect twice on mount and keeps the refs)
EffectReruns ==
  /\ ~crashed
  /\ page.shown
  /\ page.effects < MaxReruns
  /\ Rehydrate(page.inst, cache, timers, toasts, pendingRef, hist)
  /\ page' = [page EXCEPT !.effects = @ + 1]
  /\ crashed' = RehydrationThrows(page.inst, cache, pendingRef)
  /\ UNCHANGED <<now, server, runs, reloads, emptyCalls, slotFails,
                 mutation>>

\* --------------------------------------------------- the slot's failures
\* an item with every field in order, as an earlier page may have left it
LeftItem ==
  [present |-> TRUE, users |-> <<1>>,
   previousUsers |-> [null |-> FALSE, data |-> SortedSeq(Ids)],
   expiresAt |-> UndoWindowMs, message |-> MessageBase(<<1>>),
   form |-> "ok", by |-> 0]

\* the items a page may find that it did not write itself: LeftItem, and
\* LeftItem malformed or partly written in one way (a record without id is
\* written with the id 0, which no record of the store has)
ItemsFound ==
  {LeftItem}
    \cup {[LeftItem EXCEPT !.form = f] :
            f \in {"syntax", "users", "expiresAt", "snapshot"}}
    \cup {[LeftItem EXCEPT !.previousUsers = [null |-> TRUE, data |-> <<>>]],
          [LeftItem EXCEPT !.message = NoMessage],
          [LeftItem EXCEPT !.users = <<0>>, !.message = NoMessage]}

\* something other than this page's coordinator leaves an item in the empty
\* slot (an earlier version of the application, a writer that was cut off)
ForeignItem(item) ==
  /\ ~storage.present
  /\ ~slotFails
  /\ reloads < MaxReloads
  /\ storage' = item
  /\ UNCHANGED <<now, server, cache, pendingRef, timers, toasts, runs, hist,
                 nextTid, reloads, emptyCalls, slotFails, crashed,
                 mutation, page>>

\* sessionStorage becomes unavailable: from now on its operations throw
SlotBreaks ==
  /\ ~slotFails
  /\ slotFails' = TRUE
  /\ UNCHANGED <<now, server, cache, storage, pendingRef, timers, toasts,
                 runs, hist, nextTid, reloads, emptyCalls, crashed,
                 mutation, page>>

\* ------------------------------------------------ single-record mutations
\* {...user, ...data}: the record with the submitted fields merged in
Merged(v) == v + 10

\* the record the remote store creates for the n-th mutation
NewRecord(n) == NumUsers + n

\* the updaters that onMutate passes to setQueryData for the list
\* (users.hooks: 62-73 create, 177-186 update, 286-288 delete)
Optimistic(kind, id, old) ==
  IF kind = "create" THEN <<TempId>> \o old
  ELSE IF kind = "update"
  THEN [k \in DOMAIN old |->
          IF RecId(old[k]) = id THEN Merged(old[k]) ELSE old[k]]
  ELSE SelectSeq(old, LAMBDA u : RecId(u) # id)

\* onError: if (context?.previousUsers) setQueryData(list, previousUsers)
RolledBack(cacheIn, previousUsers) ==
  IF previousUsers.def THEN previousUsers ELSE cacheIn

\* the record with this id in the remote store
Stored(id) == {v \in server : RecId(v) = id}

\* old.findIndex(user => user.id === id): the first index of s that holds
\* a record with this id, 0 for none
FindIndex(s, id) ==
  IF \E k \in DOMAIN s : RecId(s[k]) = id
  THEN CHOOSE k \in DOMAIN s :
         RecId(s[k]) = id /\ \A j \in 1..(k - 1) : RecId(s[j]) # id
  ELSE 0

\* the updater of onSuccess of useCreateUser (lines 90-107)
CreatedIn(old, data) ==
  LET existingIndex == FindIndex(old, RecId(data))
      tempIndex == FindIndex(old, TempId)
  IN IF existingIndex # 0 THEN [old EXCEPT ![existingIndex] = data]
     ELSE IF tempIndex # 0 THEN [old EXCEPT ![tempIndex] = data]
     ELSE <<data>> \o old

\* the updater of onSuccess of useUpdateUser (lines 228-230)
UpdatedIn(old, data) ==
  [k \in DOMAIN old |->
     IF RecId(old[k]) = RecId(data) THEN data ELSE old[k]]

\* mutate / mutateAsync of useCreateUser, useUpdateUser or useDeleteUser:
\* onMutate reads the list, applies the optimistic write and returns the
\* context; delete is a row action of the list page, update the form of a
\* record of the store, create the form of /users/new
OnMutate(kind, id) ==
  /\ ~crashed
  /\ mutation.pc = "idle"
  /\ mutation.count < MaxMutations
  /\ kind = "create" => id = TempId
  /\ kind = "update" => Stored(id) # {}
  /\ kind = "delete" => id \in {RecId(u) : u \in Range(Users)} \ {TempId}
  /\ cache' = Def(Optimistic(kind, id, OrEmpty(cache)))
  /\ mutation' = [pc |-> "inflight", kind |-> kind, id |-> id,
                  previousUsers |-> cache, outcome |-> "none",
                  count |-> mutation.count + 1]
  /\ UNCHANGED <<now, server, storage, pendingRef, timers, toasts, runs,
                 hist, nextTid, reloads, emptyCalls, slotFails, crashed, page>>

\* the API call of the mutation fails: onError, then onSettled
MutationFails ==
  /\ mutation.pc = "inflight"
  /\ cache' = RolledBack(cache, mutation.previousUsers)
  /\ mutation' = [mutation EXCEPT !.pc = "idle", !.outcome = "error"]
  /\ UNCHANGED <<now, server, storage, pendingRef, timers, toasts, runs,
                 hist, nextTid, reloads, emptyCalls, slotFails, crashed, page>>

\* the API call of the mutation succeeds: onSuccess, then onSettled
MutationSucceeds ==
  LET old == OrEmpty(cache)
      data == IF mutation.kind = "create" THEN NewRecord(mutation.count)
              ELSE Merged(CHOOSE v \in Stored(mutation.id) : TRUE)
  IN /\ mutation.pc = "inflight"
     /\ mutation.kind # "create" => Stored(mutation.id) # {}
     /\ server' = IF mutation.kind = "create" THEN server \cup {data}
                  ELSE IF mutation.kind = "update"
                  THEN (server \ Stored(mutation.id)) \cup {data}
                  ELSE server \ Stored(mutation.id)
     /\ cache' = IF mutation.kind = "create" THEN Def(CreatedIn(old, data))
                 ELSE IF mutation.kind = "update"
                 THEN Def(UpdatedIn(old, data))
                 ELSE cache
     /\ mutation' = [mutation EXCEPT !.pc = "idle", !.outcome = "success"]
     /\ UNCHANGED <<now, storage, pendingRef, timers, toasts, runs, hist,
                    nextTid, reloads, emptyCalls, slotFails, crashed, page>>

\* ---------------------------------------------------------- specification
\* bound of the exploration: at most `cap` transactions are created, the
\* suspended startBulkDelete calls included
CanCreate(cap) == nextTid + Cardinality(WaitingCalls) <= cap

\* bound of the exploration: the calls of startBulkDelete that are explored
MayCall(sel, cap) ==
  IF Len(sel) = 0 THEN Len(emptyCalls) < MaxEmptyCalls ELSE CanCreate(cap)

Next ==
  \/ Refetch
  \/ \E i \in Insts : GuardEffect(i)
  \/ \E d \in Steps : Advance(d)
  \/ \E i \in Insts : \E sel \in Selections(Range(Users)) :
       MayCall(sel, MaxTxn) /\ StartBulkDelete(i, sel)
  \/ \E tm \in timers : ExpiryFires(tm)
  \/ \E tm \in timers : Tick(tm)
  \/ \E t \in Tids : \E ok \in BOOLEAN : DeleteResponse(t, ok)
  \/ \E t \in Tids : ThrottleDone(t)
  \/ \E t \in Tids : \E fetched \in BOOLEAN : InvalidateDone(t, fetched)
  \/ \E id \in ToastIds : ClickUndo(id)
  \/ \E id \in ToastIds : ToastExpire(id)
  \/ /\ CanCreate(MaxTxn)
     /\ \E processed \in SUBSET Ids : Reload(processed)

Spec == Init /\ [][Next]_vars

\* the same coordinator without page reloads and toast expiry, with room for
\* one more transaction: two startBulkDelete calls overlapping a forced
\* commit
NextRace ==
  \/ Refetch
  \/ \E i \in Insts : GuardEffect(i)
  \/ \E d \in Steps : Advance(d)
  \/ \E i \in Insts : \E sel \in Selections(Range(Users)) \ {<<>>} :
       CanCreate(MaxRaceTxn) /\ StartBulkDelete(i, sel)
  \/ \E tm \in timers : ExpiryFires(tm)
  \/ \E tm \in timers : Tick(tm)
  \/ \E t \in Tids : \E ok \in BOOLEAN : DeleteResponse(t, ok)
  \/ \E t \in Tids : ThrottleDone(t)
  \/ \E t \in Tids : \E fetched \in BOOLEAN : InvalidateDone(t, fetched)
  \/ \E id \in ToastIds : ClickUndo(id)

SpecRace == Init /\ [][NextRace]_vars

\* the coordinator with a durable slot that can fail and can hold items the
\* page did not write (without toast expiry and empty selections)
NextSlot ==
  \/ Refetch
  \/ \E i \in Insts : GuardEffect(i)
  \/ \E d \in Steps : Advance(d)
  \/ \E i \in Insts : \E sel \in Selections(Range(Users)) \ {<<>>} :
       CanCreate(MaxTxn) /\ StartBulkDelete(i, sel)
  \/ \E tm \in timers : ExpiryFires(tm)
  \/ \E tm \in timers : Tick(tm)
  \/ \E t \in Tids : \E ok \in BOOLEAN : DeleteResponse(t, ok)
  \/ \E t \in Tids : ThrottleDone(t)
  \/ \E t \in Tids : \E fetched \in BOOLEAN : InvalidateDone(t, fetched)
  \/ \E id \in ToastIds : ClickUndo(id)
  \/ /\ CanCreate(MaxTxn)
     /\ \E processed \in SUBSET Ids : Reload(processed)
  \/ \E item \in ItemsFound : ForeignItem(item)
  \/ SlotBreaks

SpecSlot == Init /\ [][NextSlot]_vars


\* the single-record mutations of the list page and of the form, and the
\* fetch of the list
NextMutation ==
  \/ Refetch
  \/ \E kind \in {"create", "update", "delete"} :
       \E id \in Ids \cup {TempId} : OnMutate(kind, id)
  \/ MutationFails
  \/ MutationSucceeds

SpecMutation == Init /\ [][NextMutation]_vars


\* the coordinator with route changes instead of page reloads: the list
\* page is left and shown again while the tab stays loaded
NextRemount ==
  \/ Refetch
  \/ \E i \in Insts : GuardEffect(i)
  \/ \E d \in Steps : Advance(d)
  \/ \E i \in Insts : \E sel \in Selections(Range(Users)) \ {<<>>} :
       CanCreate(MaxTxn) /\ StartBulkDelete(i, sel)
  \/ \E tm \in timers : ExpiryFires(tm)
  \/ \E tm \in timers : Tick(tm)
  \/ \E t \in Tids : \E ok \in BOOLEAN : DeleteResponse(t, ok)
  \/ \E t \in Tids : ThrottleDone(t)
  \/ \E t \in Tids : \E fetched \in BOOLEAN : InvalidateDone(t, fetched)
  \/ \E id \in ToastIds : ClickUndo(id)
  \/ LeaveList
  \/ CanCreate(MaxTxn) /\ ReturnToList

SpecRemount == Init /\ [][NextRemount]_vars


\* the coordinator of Spec under StrictMode: the rehydration effect may
\* run again
NextStrict ==
  \/ Refetch
  \/ \E i \in Insts : GuardEffect(i)
  \/ \E d \in Steps : Advance(d)
  \/ \E i \in Insts : \E sel \in Selections(Range(Users)) \ {<<>>} :
       CanCreate(MaxTxn) /\ StartBulkDelete(i, sel)
  \/ \E tm \in timers : ExpiryFires(tm)
  \/ \E tm \in timers : Tick(tm)
  \/ \E t \in Tids : \E ok \in BOOLEAN : DeleteResponse(t, ok)
  \/ \E t \in Tids : ThrottleDone(t)
  \/ \E t \in Tids : \E fetched \in BOOLEAN : InvalidateDone(t, fetched)
  \/ \E id \in ToastIds : ClickUndo(id)
  \/ /\ CanCreate(MaxTxn)
     /\ \E processed \in SUBSET Ids : Reload(processed)
  \/ nextTid \in Tids /\ EffectReruns

SpecStrict == Init /\ [][NextStrict]_vars


\* ================================================================= claims
\* transactions that hold an uncancelled expiry timer or tick timer
LiveTxns == {tm.id : tm \in timers}

\* s without the elements of S, order kept
RECURSIVE Without(_, _)
Without(s, S) ==
  IF s = <<>> THEN <<>>
  ELSE (IF Head(s) \in S THEN <<>> ELSE <<Head(s)>>) \o Without(Tail(s), S)

Count(s, x) == Cardinality({k \in DOMAIN s : s[k] = x})

\* transactions created by startBulkDelete whose details are still recorded
Started == {t \in Tids : hist[t].kept /\ ~hist[t].rehydrated}

\* C1: in every reachable state at most one PendingDeletion is live, that
\* is, the uncancelled expiry and tick timers all belong to one transaction
C1_AtMostOneLive == Cardinality(LiveTxns) <= 1

\* C2: right after the optimistic write of startBulkDelete the working set
\* is the working set read just before it without exactly the selected
\* records
C2_RemovesExactlySelection ==
  \A t \in Started :
    /\ hist[t].after.def
    /\ hist[t].after.data =
         Without(OrEmpty(hist[t].before), Range(hist[t].sel))

\* C2 witness: a started transaction removed a record and kept another one
C2_Witness ==
  \E t \in Started :
    /\ hist[t].before.def
    /\ Len(hist[t].after.data) > 0
    /\ Len(hist[t].after.data) < Len(hist[t].before.data)

\* C3: the working set right after an undo is set-equal to the snapshot
\* captured when the undone transaction started
C3_UndoRestoresSnapshot ==
  \A t \in Tids :
    (hist[t].kept /\ hist[t].status = "undone") =>
      /\ hist[t].restored.def
      /\ hist[t].before.def
      /\ Range(hist[t].restored.data) = Range(hist[t].before.data)
      /\ Len(hist[t].restored.data) = Len(hist[t].before.data)

\* C3 witness: a transaction was undone after the working set had been
\* rewritten by a refresh during its window (the server had changed)
C3_Witness ==
  \E t \in Tids :
    /\ hist[t].kept /\ hist[t].status = "undone"
    /\ hist[t].before.def
    /\ Range(hist[t].before.data) # server
    /\ cache = hist[t].restored

\* C4: no delete request is ever issued for a transaction that was undone
C4_UndoneNeverDeleted ==
  \A t \in Tids :
    hist[t].undone =>
      /\ hist[t].begun = 0
      /\ hist[t].calls = <<>>
      /\ runs[t].pc = "none"

\* C4 witness: an undone transaction whose expiry time has passed
C4_Witness ==
  \E t \in Tids :
    /\ hist[t].undone /\ hist[t].kept
    /\ hist[t].before.def /\ hist[t].after.def
    /\ now >= UndoWindowMs

\* C5: a transaction starts committing at most once and each of its records
\* receives at most one delete request, however often finalizeBulkDeletion
\* is triggered
C5_CommitsAtMostOnce ==
  \A t \in Tids :
    /\ hist[t].begun <= 1
    /\ \A id \in Ids : Count(hist[t].calls, id) <= 1

\* C5 witness: while a transaction was in its delete loop, a startBulkDelete
\* triggered finalizeBulkDeletion again, and it has issued its requests once
C5_Witness ==
  \E t, u \in Tids :
    /\ t \in hist[u].concurrentAtStart
    /\ hist[t].begun = 1
    /\ hist[t].kept
    /\ Len(hist[t].calls) = Len(hist[t].sel)
    /\ Len(hist[t].sel) > 1


\* C6: a startBulkDelete call that found a transaction pending reads its
\* snapshot and applies its optimistic write only after every delete request
\* of that transaction has been issued and answered
C6_ForcedCommitCompletesFirst ==
  \A u \in Started :
    hist[u].waitedFor # 0 =>
      /\ hist[u].owedAtStart = 0
      /\ hist[u].waitedFor \notin hist[u].concurrentAtStart

\* C6 witness: a transaction was started after waiting for a forced commit
\* of two records
C6_Witness ==
  \E u \in Started :
    /\ hist[u].waitedFor # 0
    /\ hist[u].returnedAtStart = 2
    /\ hist[u].status = "pending"

\* C7: no transaction applies its optimistic write while an earlier one is
\* still pending or still in its delete loop
C7_Serialized ==
  \A u \in Started : hist[u].concurrentAtStart = {}

\* runs between their first delete request and the end of the invalidation
ActiveRuns ==
  {t \in Tids : runs[t].pc \in {"inflight", "throttle", "invalidating"}}

\* C8: the delete requests of a commit are issued in selection order, and
\* at most one of them is in flight at any time
C8_SequentialInSelectionOrder ==
  /\ \A t \in Tids :
       hist[t].kept =>
         /\ Len(hist[t].calls) <= Len(hist[t].sel)
         /\ \A k \in DOMAIN hist[t].calls : hist[t].calls[k] = hist[t].sel[k]
  /\ \A t \in ActiveRuns :
       Len(hist[t].calls) - Returned(runs[t]) =
         IF runs[t].pc = "inflight" THEN 1 ELSE 0

\* C8 witness: the second request of a selection that is not in id order is
\* in flight
C8_Witness ==
  \E t \in ActiveRuns :
    /\ runs[t].pc = "inflight"
    /\ hist[t].sel = <<2, 1>>
    /\ hist[t].calls = <<2, 1>>

\* C9: when the loop of a commit is over, every record of the transaction
\* has had exactly one delete attempt and its name is in exactly one of the
\* success and failed lists, whatever failed
C9_EveryRecordAttemptedOnce ==
  \A t \in Tids :
    runs[t].pc = "invalidating" =>
      /\ hist[t].calls = hist[t].sel
      /\ runs[t].users = hist[t].sel
      /\ \A k \in DOMAIN hist[t].sel :
           Count(runs[t].success \o runs[t].failed, Name(hist[t].sel[k])) = 1
      /\ Returned(runs[t]) = Len(hist[t].sel)

\* C9 witness: the first delete failed and the second one succeeded
C9_Witness ==
  \E t \in Tids :
    /\ runs[t].pc = "invalidating"
    /\ Len(hist[t].sel) = 2
    /\ runs[t].failed = <<Name(hist[t].sel[1])>>
    /\ runs[t].success = <<Name(hist[t].sel[2])>>

\* C10: when every delete of a commit failed, the working set is set back to
\* the snapshot of the transaction and the one outcome toast is the error
C10_AllFailedRollsBack ==
  \A t \in Tids :
    (/\ runs[t].pc = "invalidating"
     /\ Len(runs[t].users) >= 1
     /\ Len(runs[t].failed) = Len(runs[t].users)) =>
      /\ runs[t].outcome.kind = "error"
      /\ hist[t].before.def
      /\ runs[t].cacheAtOutcome = hist[t].before

\* C10 witness: both deletes of a transaction failed and the rollback
\* brought the two records back
C10_Witness ==
  \E t \in Tids :
    /\ runs[t].pc = "invalidating"
    /\ Len(runs[t].failed) = 2
    /\ Len(runs[t].users) = 2
    /\ runs[t].cacheAtOutcome = hist[t].before
    /\ hist[t].after # hist[t].before

\* user.name of the records of a list, in order
Names(users) == [k \in DOMAIN users |-> Name(users[k])]

\* the delete loop of run t ends in this step
LoopEnds(t) ==
  /\ runs[t].pc \in {"inflight", "throttle"}
  /\ runs'[t].pc = "invalidating"

BranchOf(r) ==
  IF Len(r.failed) = 0 THEN "success"
  ELSE IF Len(r.success) = 0 THEN "error" ELSE "warning"

\* C12: a commit leaves its delete loop only into the invalidation of the
\* users list (or because the page is unloaded); the invalidation starts
\* only after every delete attempt has returned and the outcome toast of
\* the branch has been shown, and finalizeBulkDeletion returns only from
\* the invalidation
C12_EndsWithInvalidation ==
  [][\A t \in Tids :
       /\ runs[t].pc \in {"inflight", "throttle"} =>
            runs'[t].pc \in {"inflight", "throttle", "invalidating",
                             "killed"}
       /\ (runs[t].pc # "invalidating" /\ runs'[t].pc = "invalidating") =>
            /\ Returned(runs'[t]) = Len(runs'[t].users)
            /\ hist'[t].calls = runs'[t].users
            /\ runs'[t].outcome.kind = BranchOf(runs'[t])
       /\ (runs[t].pc # "done" /\ runs'[t].pc = "done") =>
            runs[t].pc = "invalidating"]_vars

\* C12 witness: both deletes of a commit succeeded, the success toast is
\* shown and the invalidation is awaited
C12_Witness ==
  \E t \in Tids :
    /\ runs[t].pc = "invalidating"
    /\ runs[t].outcome.kind = "success"
    /\ Len(runs[t].success) = 2
    /\ hist[t].calls = runs[t].users

\* C13: while a transaction is committing the durable slot is empty, so
\* that a page reload during the commit rehydrates nothing
C13_CommittingSlotEmpty ==
  Committing # {} => ~storage.present

\* transaction t leaves Pending in this step, by commit or by undo
LeavesPending(t) ==
  /\ hist[t].status = "pending"
  /\ hist'[t].status \in {"committing", "undone"}

\* C14: in the state right after a transaction leaves Pending, by commit or
\* by undo, none of its timers is scheduled any more, the durable slot is
\* empty and the reference no longer holds it
C14_LeavingPendingCleansUp ==
  [][\A t \in Tids :
       LeavesPending(t) =>
         /\ \A tm \in timers' : tm.id # t
         /\ storage' = NoBlob
         /\ t \notin {pendingRef'[i].tid : i \in Insts}]_vars

\* C14 witness: a transaction was committed with its tick timer still
\* scheduled, every delete failed, and nothing of it is left
C14_Witness ==
  \E t \in Tids :
    /\ runs[t].pc = "invalidating"
    /\ runs[t].outcome.kind = "error"
    /\ runs[t].waiter.active
    /\ \A tm \in timers : tm.id # t
    /\ ~storage.present

\* the page is reloaded in this step
Reloads == reloads' = reloads + 1

\* the stored snapshot as a query-data value
StoredSnapshot(item) ==
  IF item.previousUsers.null THEN Undef ELSE Def(item.previousUsers.data)

\* C15: a reload that finds a stored deletion whose expiresAt is in the
\* future makes the coordinator Pending again with the stored records,
\* snapshot and expiresAt, shows the countdown with Undo, schedules the
\* expiry for expiresAt, and sets the working set to the stored snapshot
\* without the stored records; an undo of the rehydrated transaction puts
\* the stored snapshot back and no delete request is issued for it; its
\* expiry timer starts the commit no earlier than expiresAt
C15_ReloadInsideWindow ==
  [][/\ (Reloads /\ storage.present /\ storage.expiresAt > now) =>
          /\ pendingRef'[1].tid = nextTid
          /\ pendingRef'[1].users = storage.users
          /\ pendingRef'[1].previousUsers = StoredSnapshot(storage)
          /\ pendingRef'[1].expiresAt = storage.expiresAt
          /\ cache' = Def(Without(storage.previousUsers.data,
                                  Range(storage.users)))
          /\ timers' = {Timeout(nextTid, 1, storage.expiresAt),
                        Interval(nextTid, 1, now + TickMs)}
          /\ toasts'[RestoredToastId].live
          /\ toasts'[RestoredToastId].action
          /\ storage'.present
          /\ storage'.users = storage.users
          /\ storage'.previousUsers = storage.previousUsers
          /\ storage'.expiresAt = storage.expiresAt
     /\ \A t \in Tids :
          (hist[t].rehydrated /\ LeavesPending(t)) =>
            IF hist'[t].status = "undone"
            THEN /\ cache' = pendingRef[1].previousUsers
                 /\ cache' = hist[t].before
                 /\ hist'[t].calls = <<>>
                 /\ runs'[t].pc = "none"
            ELSE runs'[t].waiter.active \/ now >= pendingRef[1].expiresAt
    ]_vars

\* C15 witness: after a reload inside the window the rehydrated transaction
\* was undone and the working set is the stored snapshot again
C15_Witness ==
  \E t \in Tids :
    /\ hist[t].rehydrated
    /\ hist[t].status = "undone"
    /\ hist[t].before.def
    /\ cache = hist[t].before
    /\ Len(hist[t].sel) > 0
    /\ reloads > 0

\* C16: a reload that finds a stored deletion whose expiresAt is not in the
\* future shows no countdown and no Undo, starts no tick timer, and
\* schedules the commit of the stored records with a delay of zero; the
\* transaction built that way is never undone
C16_ReloadAfterWindow ==
  [][/\ (Reloads /\ storage.present /\ storage.expiresAt <= now) =>
          /\ \A k \in ToastIds : ~toasts'[k].live
          /\ timers' = {Timeout(nextTid, 1, now)}
          /\ pendingRef'[1].tid = nextTid
          /\ pendingRef'[1].users = storage.users
          /\ pendingRef'[1].intervalId = 0
     /\ \A t \in Tids :
          (hist[t].rehydrated /\ LeavesPending(t)
             /\ pendingRef[1].intervalId = 0) =>
            /\ hist'[t].status = "committing"
            /\ runs'[t].users = hist[t].sel
    ]_vars

\* C16 witness: after a reload at the expiry time the stored records are
\* being committed by the zero-delay timer, in the instant of the reload
C16_Witness ==
  \E t \in Tids :
    /\ hist[t].rehydrated
    /\ hist[t].status = "committing"
    /\ runs[t].pc = "inflight"
    /\ ~runs[t].waiter.active
    /\ hist[t].before.def
    /\ now = UndoWindowMs
    /\ \A k \in ToastIds : ~toasts[k].live

\* C17: while a transaction is Pending, the guard applied to a working set
\* that contains pending records removes exactly those records and keeps
\* every other record in its place; applied to a working set without
\* pending records (as the one it has just produced) it changes nothing
C17_GuardRefilters ==
  \A i \in Insts :
    LET pending == pendingRef[i]
        ids == IdSet(pending.users)
        g == Guarded(cache, Users, pending)
    IN pending.tid # 0 =>
         /\ (Range(Users) \cap ids # {}) =>
              /\ g.def
              /\ g.data = Without(Users, ids)
         /\ (Range(Users) \cap ids = {}) => g = cache
         /\ Guarded(g, OrEmpty(g), pending) = g

\* C17 witness: a transaction is Pending and a refresh has written a list
\* with one of its records and a record that is not pending
C17_Witness ==
  \E i \in Insts :
    /\ pendingRef[i].tid # 0
    /\ cache = Def(ServerList)
    /\ Range(Users) \cap IdSet(pendingRef[i].users) # {}
    /\ Range(Users) \ IdSet(pendingRef[i].users) # {}

\* C18: a call of startBulkDelete with an empty selection changes nothing:
\* the working set, the pending deletion and its timers, the durable slot,
\* the toasts and the commits under way stay as they are, a pending
\* deletion is not committed and no delete request is issued
C18_EmptySelectionNoOp ==
  [][emptyCalls' # emptyCalls =>
       UNCHANGED <<cache, pendingRef, timers, storage, toasts, runs, hist,
                   server, nextTid>>]_vars

\* C18 witness: startBulkDelete was called with an empty selection while a
\* transaction was pending, and that transaction is still pending with its
\* timers, its toast and its stored item
C18_Witness ==
  \E k \in DOMAIN emptyCalls :
    LET t == emptyCalls[k]
    IN /\ t # 0
       /\ pendingRef[1].tid = t
       /\ hist[t].status = "pending"
       /\ hist[t].begun = 0
       /\ \E tm \in timers : tm.id = t /\ tm.kind = "timeout"
       /\ toasts[pendingRef[1].toastId].live
       /\ storage.by = t

\* a stored item that is malformed or only partly written
Malformed(item) ==
  /\ item.present
  /\ \/ item.form # "ok"
     \/ item.previousUsers.null
     \/ 0 \in Range(item.users)

\* the coordinator of the page just loaded is idle and nothing was set up
IdleAfterLoad ==
  /\ pendingRef'[1].tid = 0
  /\ timers' = {}
  /\ \A k \in ToastIds : ~toasts'[k].live
  /\ cache' = Undef
  /\ nextTid' = nextTid

\* C19: a page that finds a malformed or partly written item in the slot
\* when it loads removes the item and stays idle: it writes no working set,
\* starts no timer, shows no toast and builds no pending deletion from it
C19_MalformedItemDiscarded ==
  [][(Reloads /\ Malformed(storage) /\ ~slotFails) =>
       /\ storage' = NoBlob
       /\ IdleAfterLoad
       /\ ~crashed']_vars

\* C20: a page that loads while the operations of the slot throw treats the
\* slot as empty: the exception does not leave the coordinator, which is
\* idle afterwards
C20_FailedReadIsNoState ==
  [][(Reloads /\ slotFails) => (~crashed' /\ IdleAfterLoad)]_vars


\* C21: undo takes effect only on a pending transaction. An invocation of
\* undoBulkDeletion that finds nothing pending (the transactions created so
\* far are in their commit or settled) leaves the working set, the delete
\* runs, the remote store and the timers as they are and marks nothing as
\* undone or restored; no undo changes a delete run; a transaction is
\* marked undone only out of Pending; and a tick that computes zero seconds
\* shows the toast without the Undo action
C21_UndoOnlyInPending ==
  [][/\ \A k \in ToastIds :
          (pendingRef[1].tid = 0 /\ ClickUndo(k)) =>
            /\ cache' = cache /\ runs' = runs /\ server' = server
            /\ timers' = timers
            /\ toasts' = Dismiss(toasts, k)
            /\ \A t \in Tids : /\ hist'[t].status = hist[t].status
                               /\ hist'[t].undone = hist[t].undone
                               /\ hist'[t].restored = hist[t].restored
     /\ (\E k \in ToastIds : ClickUndo(k)) =>
            runs' = runs /\ server' = server
     /\ \A t \in Tids :
          (hist'[t].undone /\ ~hist[t].undone) =>
            hist[t].status = "pending" /\ pendingRef[1].tid = t
     /\ \A tm \in timers :
          LET pending == pendingRef[tm.inst]
          IN (/\ Tick(tm) /\ pending.tid # 0
              /\ SecondsLeft(pending.expiresAt - now) = 0) =>
               /\ toasts'[pending.toastId].live
               /\ ~toasts'[pending.toastId].action
               /\ toasts'[pending.toastId].secs = 0]_vars

\* an undo was invoked while a transaction was issuing its delete requests
C21_Witness ==
  \E t \in Tids :
    /\ hist[t].lateUndo
    /\ hist[t].status = "committing"
    /\ runs[t].pc \in {"inflight", "throttle"}
    /\ runs[t].idx >= 1


\* C22: every transaction that is created is settled exactly once: its
\* commit is begun at most once, it is never both undone and committed, and
\* while it is still Pending it is the one the reference holds and its
\* expiry timer is still scheduled, so that the expiry settles it
C22_SettledExactlyOnce ==
  \A t \in Tids :
    /\ hist[t].begun <= 1
    /\ ~(hist[t].undone /\ hist[t].begun > 0)
    /\ hist[t].status = "pending" =>
         /\ pendingRef[1].tid = t
         /\ \E tm \in timers : tm.kind = "timeout" /\ tm.id = t

\* C23: when the API call of a single-record mutation fails, the list in
\* the query cache is again exactly what onMutate captured before its
\* optimistic write
C23_FailedMutationRollsBack ==
  [][(mutation.pc = "inflight" /\ mutation'.outcome = "error") =>
       cache' = mutation.previousUsers]_vars

\* C24: the snapshot of a transaction is the working set read before its
\* optimistic write, and while the transaction is Pending no step changes
\* it: the reference holds that snapshot in every state, the stored item
\* written for the transaction holds it too, and a page reload hands it on
\* unchanged to the transaction that continues it
C24_SnapshotUnchanged ==
  [][\A t \in Tids :
       /\ (hist[t].status = "none" /\ hist'[t].status = "pending"
             /\ ~hist'[t].rehydrated /\ hist'[t].waitedFor = 0) =>
            /\ pendingRef'[1].tid = t
            /\ pendingRef'[1].previousUsers = cache
            /\ hist'[t].before = cache
       /\ (hist[t].status = "pending" /\ hist'[t].status = "pending") =>
            hist'[t].before = hist[t].before
       /\ pendingRef'[1].tid = t =>
            /\ pendingRef'[1].previousUsers = hist'[t].before
            /\ storage'.present /\ storage'.by = t
            /\ StoredSnapshot(storage') = hist'[t].before
       /\ (Reloads /\ storage.present /\ storage.by = t
             /\ pendingRef'[1].tid # 0) =>
            /\ pendingRef'[1].previousUsers = hist[t].before
            /\ StoredSnapshot(storage') = StoredSnapshot(storage)]_vars

\* after a reload the continued transaction is Pending, ticks have run and
\* a background fetch was re-filtered, and its snapshot is still the
\* working set read before the records were removed
C24_Witness ==
  \E t \in Tids :
    /\ pendingRef[1].tid = t
    /\ hist[t].rehydrated
    /\ reloads > 0
    /\ Len(hist[t].sel) > 0
    /\ pendingRef[1].previousUsers = hist[t].before
    /\ StoredSnapshot(storage) = hist[t].before
    /\ hist[t].before.def
    /\ cache # hist[t].before
    /\ toasts[RestoredToastId].live
    /\ toasts[RestoredToastId].secs < SecondsLeft(UndoWindowMs)

\* C25: the undo window ends at expiresAt whatever the timers do: once the
\* clock is at or past expiresAt of the pending transaction its toast
\* offers no Undo, and no transaction is undone at or after its expiresAt
C25_WindowIsAbsolute ==
  [][/\ (pendingRef'[1].tid # 0 /\ now' >= pendingRef'[1].expiresAt) =>
          ~(/\ toasts'[pendingRef'[1].toastId].live
            /\ toasts'[pendingRef'[1].toastId].action)
     /\ \A t \in Tids :
          (hist'[t].undone /\ ~hist[t].undone) =>
            now < pendingRef[1].expiresAt]_vars

\* C26: a tick changes only the notification. With a transaction pending
\* it shows that transaction's toast with the transaction's message and the
\* countdown max(0, ceil((expiresAt - now) / 1000)), which lies between 0
\* and 5 and is not above the countdown the toast showed before; every
\* other toast, the working set, the remote store, the reference (records,
\* snapshot, expiresAt, message), the stored item and the delete runs stay
\* as they are
C26_TickOnlyNotification ==
  [][\A tm \in timers :
       Tick(tm) =>
         LET pending == pendingRef[tm.inst]
             k == pending.toastId
         IN /\ cache' = cache /\ server' = server
            /\ pendingRef' = pendingRef /\ storage' = storage
            /\ runs' = runs /\ hist' = hist
            /\ IF pending.tid = 0 THEN toasts' = toasts
               ELSE /\ toasts'[k].live
                    /\ toasts'[k].secs =
                         Max(0, 0 - ((now - pending.expiresAt) \div 1000))
                    /\ toasts'[k].secs \in 0..5
                    /\ toasts[k].live => toasts'[k].secs <= toasts[k].secs
                    /\ toasts'[k].msg = pending.message
                    /\ \A j \in ToastIds \ {k} : toasts'[j] = toasts[j]]_vars

\* a tick has lowered the countdown of a transaction created by
\* startBulkDelete, which is still pending with its snapshot and item
C26_Witness ==
  \E t \in Tids :
    /\ pendingRef[1].tid = t
    /\ ~hist[t].rehydrated
    /\ toasts[t].live
    /\ toasts[t].secs \in 1..4
    /\ toasts[t].action
    /\ cache = hist[t].after
    /\ pendingRef[1].previousUsers = hist[t].before
    /\ storage.present /\ storage.expiresAt = pendingRef[1].expiresAt

\* C27: startBulkDelete assigns its new transaction only to an empty
\* reference: in the step in which a transaction is created by
\* startBulkDelete, the reference held no transaction before
C27_NeverOverwritesPending ==
  [][\A t \in Tids :
       (/\ hist[t].status = "none" /\ hist'[t].status = "pending"
        /\ ~hist'[t].rehydrated) =>
         pendingRef[1].tid = 0]_vars

\* C28: leaving the list page and coming back inside the undo window keeps
\* one live transaction for the stored records: at most one instance of
\* the page holds a pending deletion, a transaction and the one rehydrated
\* from its item together issue at most one delete request per record, and
\* when either of them was undone no delete request is issued by the other
C28_RemountKeepsOne ==
  /\ Cardinality({i \in Insts : pendingRef[i].tid # 0}) <= 1
  /\ \A t, u \in Tids :
       (hist[u].kept /\ hist[t].kept /\ hist[u].continues = t) =>
         /\ \A id \in Ids :
              Count(hist[t].calls, id) + Count(hist[u].calls, id) <= 1
         /\ hist[t].undone => hist[u].calls = <<>>
         /\ hist[u].undone => hist[t].calls = <<>>

\* C29: between the steps of the coordinator the stored item and the
\* reference of the mounted page agree: an item is stored exactly when a
\* PendingDeletion is held, and then its records, snapshot, expiresAt and
\* message are those of the held one (the item has no field for a timer or
\* a toast)
C29_SlotMirrorsReference ==
  LET held == pendingRef[page.inst]
  IN /\ storage.present <=> held.tid # 0
     /\ storage.present =>
          /\ storage.users = held.users
          /\ StoredSnapshot(storage) = held.previousUsers
          /\ storage.expiresAt = held.expiresAt
          /\ storage.message = held.message
          /\ DOMAIN storage =
               {"present", "users", "previousUsers", "expiresAt", "message",
                "form", "by"}

\* C30: rehydration is idempotent: when the rehydration effect runs again
\* while the mounted instance holds a PendingDeletion, no timer is added,
\* no toast is shown or changed, and the working set, the stored item, the
\* reference and the delete runs stay as they are
C30_RehydrationIdempotent ==
  [][(/\ page'.inst = page.inst /\ page'.effects = page.effects + 1
      /\ pendingRef[page.inst].tid # 0) =>
       /\ timers' = timers /\ toasts' = toasts
       /\ cache' = cache /\ storage' = storage
       /\ pendingRef' = pendingRef /\ runs' = runs
       /\ server' = server /\ nextTid' = nextTid
       /\ \A t \in Tids : hist'[t].status = hist[t].status
       /\ ~crashed']_vars

\* after a reload rehydrated a transaction the effect ran again, and the
\* transaction is still the only one, with its two timers and its toast
C30_Witness ==
  \E t \in Tids :
    /\ page.effects > 0
    /\ reloads > 0
    /\ pendingRef[1].tid = t
    /\ hist[t].rehydrated
    /\ storage.present
    /\ timers = {Timeout(t, 1, pendingRef[1].expiresAt),
                 Interval(t, 1, TickMs)}
    /\ toasts[RestoredToastId].live
    /\ nextTid = t + 1
====
